---- MODULE Spec2Model ----
(***************************************************************************)
(* Model of static/script.js: the browser-side form of the security cost   *)
(* calculator.  The document is modelled by the parts the script reads and *)
(* writes: the post cards of #posts-container (each with its title, its    *)
(* hours/days inputs and its staff groups), the #markup input, the         *)
(* equipment check list #tmc-selection, the equipment management list      *)
(* #tmc-list, the equipment creation form, and #result.  The server is     *)
(* modelled by the registry of equipment ids and by the fetches in flight. *)
(***************************************************************************)
EXTENDS Integers, Sequences, FiniteSets, TLC

VARIABLES
    loaded,        \* DOMContentLoaded has fired
    postCounter,   \* script.js:2
    staffCounter,  \* script.js:88, keyed by post id (0 = not set)
    posts,         \* the .post-card elements of the document, in document order
    markup,        \* text of the #markup input
    tmcItems,      \* script.js:3
    tmcSelection,  \* the .tmc-checkbox elements of #tmc-selection, in order
    tmcList,       \* the .tmc-item elements of #tmc-list, in order
    tmcForm,       \* the inputs tmc-name, tmc-price, tmc-quantity, tmc-amortization
    activeTab,     \* the tab carrying the class "active"
    registry,      \* the server's equipment registry (set of item ids)
    loads,         \* GET /api/tmc fetches in the order they were issued: those in flight,
                   \* and those whose response loadTMC has rendered
    calcs,         \* the POST /api/calculate request awaiting its response, if any
    writes,        \* the POST /api/tmc or DELETE /api/tmc/{id} request in flight, if any
    result,        \* what #result shows: <<>> (hidden) or <<rendered request>>
    alerts         \* the message of the last alert(), "" when none was shown

vars == <<loaded, postCounter, staffCounter, posts, markup, tmcItems, tmcSelection,
          tmcList, tmcForm, activeTab, registry, loads, calcs, writes, result, alerts>>

-----------------------------------------------------------------------------
(* Bounds of the model *)

MaxPosts == 3
MaxStaff == 3
MaxItems == 1
MaxLoads == 2

PostIds == 1..MaxPosts
ItemIds == 1..MaxItems

-----------------------------------------------------------------------------
(* Input texts and JavaScript numbers.                                      *)
(* A text is a sequence of one-character strings.  A number is a record:   *)
(* nan, or a value counted in tenths (so that 0.5 and 1.5 are values).     *)

Digits == {"0", "1", "2", "3", "4", "5", "6", "7", "8", "9"}

DigitVal(c) ==
    CASE c = "0" -> 0 [] c = "1" -> 1 [] c = "2" -> 2 [] c = "3" -> 3 [] c = "4" -> 4
      [] c = "5" -> 5 [] c = "6" -> 6 [] c = "7" -> 7 [] c = "8" -> 8 [] c = "9" -> 9

NaN == [nan |-> TRUE, tenths |-> 0]
Num(t) == [nan |-> FALSE, tenths |-> t]

\* JavaScript truthiness of a number: neither NaN nor 0
TruthyNum(x) == ~x.nan /\ x.tenths # 0
\* JavaScript truthiness of a string: not empty
TruthyStr(s) == s # ""

RECURSIVE DigitsPrefix(_)
DigitsPrefix(s) ==
    IF s = <<>> \/ Head(s) \notin Digits THEN <<>>
    ELSE <<Head(s)>> \o DigitsPrefix(Tail(s))

RECURSIVE DigitsValue(_, _)
DigitsValue(s, acc) ==
    IF s = <<>> THEN acc ELSE DigitsValue(Tail(s), acc * 10 + DigitVal(Head(s)))

Drop(s, n) == SubSeq(s, n + 1, Len(s))

\* parseInt(text): optional sign, then the longest run of digits; NaN without digits
ParseInt(t) ==
    LET neg  == t # <<>> /\ Head(t) = "-"
        body == IF neg THEN Tail(t) ELSE t
        ds   == DigitsPrefix(body)
        v    == DigitsValue(ds, 0) * 10
    IN  IF ds = <<>> THEN NaN ELSE Num(IF neg THEN -v ELSE v)

\* parseFloat(text): optional sign, digits, optionally "." and digits (the model
\* keeps one fractional digit); NaN when there is no digit at all
ParseFloat(t) ==
    LET neg  == t # <<>> /\ Head(t) = "-"
        body == IF neg THEN Tail(t) ELSE t
        ds   == DigitsPrefix(body)
        rest == Drop(body, Len(ds))
        fs   == IF rest # <<>> /\ Head(rest) = "." THEN DigitsPrefix(Tail(rest)) ELSE <<>>
        v    == DigitsValue(ds, 0) * 10 + (IF fs = <<>> THEN 0 ELSE DigitVal(Head(fs)))
    IN  IF ds = <<>> /\ fs = <<>> THEN NaN ELSE Num(IF neg THEN -v ELSE v)

\* a || b on numbers
OrElse(a, b) == IF TruthyNum(a) THEN a ELSE b

-----------------------------------------------------------------------------
(* Document helpers *)

RECURSIVE SelectIdx(_, _, _)
\* indices i >= from of s with s[i].id = id
SelectIdx(s, id, from) ==
    IF from > Len(s) THEN <<>>
    ELSE (IF s[from].id = id THEN <<from>> ELSE <<>>) \o SelectIdx(s, id, from + 1)

RemoveAt(s, i) == SubSeq(s, 1, i - 1) \o SubSeq(s, i + 1, Len(s))

\* document.getElementById on an element keyed by id in the sequence s: index of
\* the first element with that id in document order, 0 when there is none
IndexOfId(s, id) ==
    LET m == SelectIdx(s, id, 1) IN IF m = <<>> THEN 0 ELSE m[1]

RECURSIVE AllStaff(_, _)
\* every staff group of the document in document order, as <<card index, staff index>>
AllStaff(ps, i) ==
    IF i > Len(ps) THEN <<>>
    ELSE [j \in 1..Len(ps[i].staff) |-> <<i, j>>] \o AllStaff(ps, i + 1)

RECURSIVE FirstStaff(_, _, _)
FirstStaff(ps, locs, staffId) ==
    IF locs = <<>> THEN <<>>
    ELSE IF ps[Head(locs)[1]].staff[Head(locs)[2]].id = staffId THEN Head(locs)
    ELSE FirstStaff(ps, Tail(locs), staffId)

\* document.getElementById(staffId): <<card index, staff index>> of the first staff
\* group with that id in document order, <<>> when there is none
StaffLoc(ps, staffId) == FirstStaff(ps, AllStaff(ps, 1), staffId)

-----------------------------------------------------------------------------
(* Values the user types *)

EmptyText == <<>>
PositionTexts == {"", "Guard"}

\* texts of the fields as the markup of addPost and addStaff sets them
DefaultHours == <<"1", "2">>
DefaultDays == <<"7">>
DefaultCount == <<"1">>

-----------------------------------------------------------------------------
(* addPost, removePost, renumberPosts, addStaff, removeStaff *)

RECURSIVE Sum(_, _)
Sum(f, S) == IF S = {} THEN 0 ELSE LET x == CHOOSE y \in S : TRUE IN f[x] + Sum(f, S \ {x})

\* staff groups created so far, over all posts
StaffCreated == Sum(staffCounter, PostIds)

\* a numbering taken from the cards present instead of the counter
NextPostCounterFromCards == Len(posts) + 1

NextPostCounter == postCounter + 1

NextStaffCounter(postId) == staffCounter[postId] + 1

NewStaffGroup(postId, n) ==
    [id |-> <<postId, n>>, position |-> "", count |-> DefaultCount, salary |-> EmptyText]

NewPostCard(n) ==
    [id |-> n, title |-> n, hours |-> DefaultHours, days |-> DefaultDays, staff |-> <<>>]

\* container.appendChild(staffGroup) on the first element with id staff-${postId}
AppendStaff(ps, postId, n) ==
    LET i == IndexOfId(ps, postId)
    IN  [ps EXCEPT ![i].staff = Append(@, NewStaffGroup(postId, n))]

RenumberPosts(ps) == [i \in 1..Len(ps) |-> [ps[i] EXCEPT !.title = i]]

\* the body of addPost, also run by the DOMContentLoaded handler
AddPostBody ==
    /\ postCounter < MaxPosts
    /\ StaffCreated < MaxStaff
    /\ postCounter' = NextPostCounter
    /\ staffCounter' = [staffCounter EXCEPT ![postCounter'] = NextStaffCounter(postCounter')]
    /\ posts' = AppendStaff(Append(posts, NewPostCard(postCounter')),
                            postCounter', staffCounter'[postCounter'])

\* a fetch('/api/tmc') is issued; kind tells which loader awaits it
IssueLoad(kind) ==
    /\ Len(loads) < MaxLoads
    /\ loads' = Append(loads, [kind |-> kind, st |-> "sent", resp |-> <<>>])

DOMContentLoaded ==
    /\ ~loaded
    /\ loaded' = TRUE
    /\ IssueLoad("select")
    /\ AddPostBody
    /\ UNCHANGED <<markup, tmcItems, tmcSelection, tmcList, tmcForm, activeTab,
                   registry, calcs, writes, result, alerts>>

\* the user can act when the page is loaded and no alert() is open
Idle == loaded /\ alerts = ""

\* the tab whose content is visible: the equipment management tab, or the calculation tab
OnTmcTab == Idle /\ activeTab = "tmc"
OnCalcTab == Idle /\ activeTab # "tmc"

\* a calculation is in flight; the user waits for its outcome before touching the
\* calculation form again
Waiting == calcs # <<>>

AddPost ==
    /\ OnCalcTab
    /\ ~Waiting
    /\ AddPostBody
    /\ UNCHANGED <<loaded, markup, tmcItems, tmcSelection, tmcList, tmcForm, activeTab,
                   registry, loads, calcs, writes, result, alerts>>

\* the delete button of the card at index i calls removePost with that card's id
RemovePost(i) ==
    /\ OnCalcTab
    /\ ~Waiting
    /\ i \in 1..Len(posts)
    /\ LET k == IndexOfId(posts, posts[i].id)
       IN  posts' = RenumberPosts(RemoveAt(posts, k))
    /\ UNCHANGED <<loaded, postCounter, staffCounter, markup, tmcItems, tmcSelection,
                   tmcList, tmcForm, activeTab, registry, loads, calcs, writes, result,
                   alerts>>

\* the "add staff group" button of the card at index i calls addStaff with its id
AddStaff(i) ==
    /\ OnCalcTab
    /\ ~Waiting
    /\ i \in 1..Len(posts)
    /\ LET postId == posts[i].id
       IN  /\ StaffCreated < MaxStaff
           /\ staffCounter' = [staffCounter EXCEPT ![postId] = NextStaffCounter(postId)]
           /\ posts' = AppendStaff(posts, postId, staffCounter'[postId])
    /\ UNCHANGED <<loaded, postCounter, markup, tmcItems, tmcSelection, tmcList, tmcForm,
                   activeTab, registry, loads, calcs, writes, result, alerts>>

\* the delete button of staff group j of card i calls removeStaff with its id
RemoveStaff(i, j) ==
    /\ OnCalcTab
    /\ ~Waiting
    /\ i \in 1..Len(posts)
    /\ j \in 1..Len(posts[i].staff)
    /\ LET loc == StaffLoc(posts, posts[i].staff[j].id)
       IN  posts' = [posts EXCEPT ![loc[1]].staff = RemoveAt(@, loc[2])]
    /\ UNCHANGED <<loaded, postCounter, staffCounter, markup, tmcItems, tmcSelection,
                   tmcList, tmcForm, activeTab, registry, loads, calcs, writes, result,
                   alerts>>

-----------------------------------------------------------------------------
(* The user edits a field of the calculation form *)

EditPosts(ps) ==
    /\ OnCalcTab
    /\ ~Waiting
    /\ posts' = ps
    /\ posts' # posts
    /\ UNCHANGED <<loaded, postCounter, staffCounter, markup, tmcItems, tmcSelection,
                   tmcList, tmcForm, activeTab, registry, loads, calcs, writes, result,
                   alerts>>

EditHours(i, v) == i \in 1..Len(posts) /\ EditPosts([posts EXCEPT ![i].hours = v])

EditDays(i, v) == i \in 1..Len(posts) /\ EditPosts([posts EXCEPT ![i].days = v])

EditPosition(i, j, v) ==
    /\ i \in 1..Len(posts)
    /\ j \in 1..Len(posts[i].staff)
    /\ EditPosts([posts EXCEPT ![i].staff[j].position = v])

EditCount(i, j, v) ==
    /\ i \in 1..Len(posts)
    /\ j \in 1..Len(posts[i].staff)
    /\ EditPosts([posts EXCEPT ![i].staff[j].count = v])

EditSalary(i, j, v) ==
    /\ i \in 1..Len(posts)
    /\ j \in 1..Len(posts[i].staff)
    /\ EditPosts([posts EXCEPT ![i].staff[j].salary = v])

EditMarkup(v) ==
    /\ OnCalcTab
    /\ ~Waiting
    /\ markup' = v
    /\ markup' # markup
    /\ UNCHANGED <<loaded, postCounter, staffCounter, posts, tmcItems, tmcSelection,
                   tmcList, tmcForm, activeTab, registry, loads, calcs, writes, result,
                   alerts>>

-----------------------------------------------------------------------------
(* calculate: building the request *)

\* the fields of the staff group with id staffId, each found by getElementById
StaffEntry(ps, staffId) ==
    LET loc == StaffLoc(ps, staffId)
        g   == ps[loc[1]].staff[loc[2]]
    IN  [position |-> g.position, count |-> ParseInt(g.count),
         net_salary |-> ParseFloat(g.salary)]

\* if (position && count && salary)
ValidEntry(e) == TruthyStr(e.position) /\ TruthyNum(e.count) /\ TruthyNum(e.net_salary)

\* the staff array built for the card at index i
CollectStaff(ps, i) ==
    SelectSeq([j \in 1..Len(ps[i].staff) |-> StaffEntry(ps, ps[i].staff[j].id)], ValidEntry)

\* post_number: index + 1, index counting the cards from 0
PostNumber(i) == i

\* the object pushed for the card at index i; hours and days are read from the
\* inputs hours-${postId} and days-${postId} found by getElementById
PostEntry(ps, i) ==
    LET k == IndexOfId(ps, ps[i].id)
    IN  [post_number |-> PostNumber(i),
         hours_per_day |-> ParseInt(ps[k].hours),
         days_per_week |-> ParseInt(ps[k].days),
         staff |-> CollectStaff(ps, i)]

\* a card pushed whatever its staff array holds
HasStaffAlways(p) == TRUE

\* if (staff.length > 0)
HasStaff(p) == Len(p.staff) > 0

CollectPosts(ps) == SelectSeq([i \in 1..Len(ps) |-> PostEntry(ps, i)], HasStaff)

One == Num(10)
DefaultMarkup == Num(200)

\* parseInt(...value) || 1
Quantity(text) == OrElse(ParseInt(text), One)

\* parseFloat(...value) || 20
MarkupPercent(text) == OrElse(ParseFloat(text), DefaultMarkup)

RECURSIVE CollectTmc(_, _)
\* tmcItems.forEach: the checked items, each with the quantity typed beside it
CollectTmc(items, sel) ==
    IF items = <<>> THEN <<>>
    ELSE LET k == IndexOfId(sel, Head(items))
         IN  (IF k # 0 /\ sel[k].checked
              THEN <<[item_id |-> Head(items), quantity |-> Quantity(sel[k].qty)]>>
              ELSE <<>>) \o CollectTmc(Tail(items), sel)

Request ==
    [posts |-> CollectPosts(posts),
     tmc_items |-> CollectTmc(tmcItems, tmcSelection),
     markup_percent |-> MarkupPercent(markup)]

\* a check of the cards present instead of the posts collected
RejectedWithoutCards == Len(posts) = 0

\* if (posts.length === 0) { alert(...); return; }
Rejected == Len(CollectPosts(posts)) = 0

Calculate ==
    /\ OnCalcTab
    /\ IF Rejected
       THEN /\ alerts' = "no_posts"
            /\ UNCHANGED calcs
       ELSE /\ calcs = <<>>
            /\ calcs' = <<Request>>
            /\ UNCHANGED alerts
    /\ UNCHANGED <<loaded, postCounter, staffCounter, posts, markup, tmcItems, tmcSelection,
                   tmcList, tmcForm, activeTab, registry, loads, writes, result>>

\* what displayResult shows of the server's answer to request req: the post numbers,
\* the equipment lines and the markup (the amounts the server computes are left out)
Render(req) ==
    [posts |-> [k \in 1..Len(req.posts) |-> req.posts[k].post_number],
     tmc |-> req.tmc_items,
     markup_percent |-> req.markup_percent]

\* the response to request n is 2xx: displayResult(result)
CalcOk(n) ==
    /\ alerts = ""
    /\ n \in 1..Len(calcs)
    /\ result' = <<Render(calcs[n])>>
    /\ calcs' = RemoveAt(calcs, n)
    /\ UNCHANGED <<loaded, postCounter, staffCounter, posts, markup, tmcItems, tmcSelection,
                   tmcList, tmcForm, activeTab, registry, loads, writes, alerts>>

\* a catch block that also hides the result shown
CalcFailHidingResult(n) ==
    /\ alerts = ""
    /\ n \in 1..Len(calcs)
    /\ calcs' = RemoveAt(calcs, n)
    /\ alerts' = "calc_error"
    /\ result' = <<>>
    /\ UNCHANGED <<loaded, postCounter, staffCounter, posts, markup, tmcItems,
                   tmcSelection, tmcList, tmcForm, activeTab, registry, loads, writes>>

\* the fetch of request n rejects or its response is not ok: the catch block
CalcFail(n) ==
    /\ alerts = ""
    /\ n \in 1..Len(calcs)
    /\ calcs' = RemoveAt(calcs, n)
    /\ alerts' = "calc_error"
    /\ UNCHANGED <<loaded, postCounter, staffCounter, posts, markup, tmcItems,
                   tmcSelection, tmcList, tmcForm, activeTab, registry, loads, writes,
                   result>>

\* the user closes the alert box
DismissAlert ==
    /\ alerts # ""
    /\ alerts' = ""
    /\ UNCHANGED <<loaded, postCounter, staffCounter, posts, markup, tmcItems, tmcSelection,
                   tmcList, tmcForm, activeTab, registry, loads, calcs, writes, result>>

-----------------------------------------------------------------------------
(* Equipment: showTab, loadTMC, loadTMCList, addTMC, deleteTMC *)

RECURSIVE SortedSeq(_)
\* GET /api/tmc lists the registry in id order
SortedSeq(S) ==
    IF S = {} THEN <<>>
    ELSE LET m == CHOOSE x \in S : \A y \in S : x <= y
         IN  <<m>> \o SortedSeq(S \ {m})

ShowTab(tabName) ==
    /\ Idle
    /\ activeTab' = tabName
    /\ IF tabName = "tmc" THEN IssueLoad("list") ELSE IssueLoad("select")
    /\ UNCHANGED <<loaded, postCounter, staffCounter, posts, markup, tmcItems, tmcSelection,
                   tmcList, tmcForm, registry, calcs, writes, result, alerts>>

\* the server answers fetch n with the registry as it is now
ServeLoad(n) ==
    /\ n \in 1..Len(loads)
    /\ loads[n].st = "sent"
    /\ loads' = [loads EXCEPT ![n].st = "served", ![n].resp = SortedSeq(registry)]
    /\ UNCHANGED <<loaded, postCounter, staffCounter, posts, markup, tmcItems, tmcSelection,
                   tmcList, tmcForm, activeTab, registry, calcs, writes, result, alerts>>

\* the check list loadTMC renders: one unchecked box with quantity "1" per item
RenderSelection(items) ==
    [k \in 1..Len(items) |-> [id |-> items[k], checked |-> FALSE, qty |-> <<"1">>]]

\* the continuation of loadTMC after its awaits: response n has arrived
LoadTMCDone(n) ==
    /\ alerts = ""
    /\ n \in 1..Len(loads)
    /\ loads[n].kind = "select"
    /\ loads[n].st = "served"
    /\ tmcItems' = loads[n].resp
    /\ tmcSelection' = RenderSelection(tmcItems')
    /\ loads' = [loads EXCEPT ![n].st = "done"]
    /\ UNCHANGED <<loaded, postCounter, staffCounter, posts, markup, tmcList, tmcForm,
                   activeTab, registry, calcs, writes, result, alerts>>

\* the continuation of loadTMCList after its awaits
LoadTMCListDone(n) ==
    /\ alerts = ""
    /\ n \in 1..Len(loads)
    /\ loads[n].kind = "list"
    /\ loads[n].st = "served"
    /\ tmcList' = loads[n].resp
    /\ loads' = RemoveAt(loads, n)
    /\ UNCHANGED <<loaded, postCounter, staffCounter, posts, markup, tmcItems, tmcSelection,
                   tmcForm, activeTab, registry, calcs, writes, result, alerts>>

\* fetch n rejects: the catch block of loadTMC or loadTMCList logs the error
LoadFail(n) ==
    /\ alerts = ""
    /\ n \in 1..Len(loads)
    /\ loads[n].st \in {"sent", "served"}
    /\ loads' = RemoveAt(loads, n)
    /\ UNCHANGED <<loaded, postCounter, staffCounter, posts, markup, tmcItems, tmcSelection,
                   tmcList, tmcForm, activeTab, registry, calcs, writes, result, alerts>>

ToggleCheck(k) ==
    /\ OnCalcTab
    /\ ~Waiting
    /\ k \in 1..Len(tmcSelection)
    /\ tmcSelection' = [tmcSelection EXCEPT ![k].checked = ~@]
    /\ UNCHANGED <<loaded, postCounter, staffCounter, posts, markup, tmcItems, tmcList,
                   tmcForm, activeTab, registry, loads, calcs, writes, result, alerts>>

EditQty(k, v) ==
    /\ OnCalcTab
    /\ ~Waiting
    /\ k \in 1..Len(tmcSelection)
    /\ tmcSelection' = [tmcSelection EXCEPT ![k].qty = v]
    /\ tmcSelection' # tmcSelection
    /\ UNCHANGED <<loaded, postCounter, staffCounter, posts, markup, tmcItems, tmcList,
                   tmcForm, activeTab, registry, loads, calcs, writes, result, alerts>>

\* the creation form as the page shows it at first and as addTMC clears it
ClearedTmcForm ==
    [name |-> "", price |-> EmptyText, quantity |-> <<"1">>, amortization |-> EmptyText]

EditTmcForm(f) ==
    /\ OnTmcTab
    /\ tmcForm' = f
    /\ tmcForm' # tmcForm
    /\ UNCHANGED <<loaded, postCounter, staffCounter, posts, markup, tmcItems, tmcSelection,
                   tmcList, activeTab, registry, loads, calcs, writes, result, alerts>>

\* if (!name || !price || !quantity || !amortization)
TmcFormIncomplete ==
    \/ ~TruthyStr(tmcForm.name)
    \/ ~TruthyNum(ParseFloat(tmcForm.price))
    \/ ~TruthyNum(ParseInt(tmcForm.quantity))
    \/ ~TruthyNum(ParseInt(tmcForm.amortization))

AddTMC ==
    /\ OnTmcTab
    /\ IF TmcFormIncomplete
       THEN /\ alerts' = "fill_all"
            /\ UNCHANGED writes
       ELSE /\ writes = <<>>
            /\ writes' = Append(writes, [op |-> "create", id |-> 0, st |-> "sent"])
            /\ UNCHANGED alerts
    /\ UNCHANGED <<loaded, postCounter, staffCounter, posts, markup, tmcItems, tmcSelection,
                   tmcList, tmcForm, activeTab, registry, loads, calcs, result>>

\* the delete button of entry k of #tmc-list, confirm() answered yes
DeleteTMC(k) ==
    /\ OnTmcTab
    /\ k \in 1..Len(tmcList)
    /\ writes = <<>>
    /\ writes' = Append(writes, [op |-> "delete", id |-> tmcList[k], st |-> "sent"])
    /\ UNCHANGED <<loaded, postCounter, staffCounter, posts, markup, tmcItems, tmcSelection,
                   tmcList, tmcForm, activeTab, registry, loads, calcs, result, alerts>>

\* the server carries out write n and answers 2xx
ServeWriteOk(n) ==
    /\ n \in 1..Len(writes)
    /\ writes[n].st = "sent"
    /\ IF writes[n].op = "create"
       THEN \E id \in ItemIds \ registry : registry' = registry \cup {id}
       ELSE /\ writes[n].id \in registry
            /\ registry' = registry \ {writes[n].id}
    /\ writes' = [writes EXCEPT ![n].st = "ok"]
    /\ UNCHANGED <<loaded, postCounter, staffCounter, posts, markup, tmcItems, tmcSelection,
                   tmcList, tmcForm, activeTab, loads, calcs, result, alerts>>

\* the server refuses write n, or the fetch rejects
ServeWriteFail(n) ==
    /\ n \in 1..Len(writes)
    /\ writes[n].st = "sent"
    /\ writes' = [writes EXCEPT ![n].st = "failed"]
    /\ UNCHANGED <<loaded, postCounter, staffCounter, posts, markup, tmcItems, tmcSelection,
                   tmcList, tmcForm, activeTab, registry, loads, calcs, result, alerts>>

\* the continuation of addTMC or deleteTMC after a 2xx response
WriteOk(n) ==
    /\ alerts = ""
    /\ n \in 1..Len(writes)
    /\ writes[n].st = "ok"
    /\ tmcForm' = IF writes[n].op = "create" THEN ClearedTmcForm ELSE tmcForm
    /\ IssueLoad("list")
    /\ alerts' = IF writes[n].op = "create" THEN "tmc_added" ELSE "tmc_deleted"
    /\ writes' = RemoveAt(writes, n)
    /\ UNCHANGED <<loaded, postCounter, staffCounter, posts, markup, tmcItems, tmcSelection,
                   tmcList, activeTab, registry, calcs, result>>

\* the catch block of addTMC or deleteTMC
WriteFail(n) ==
    /\ alerts = ""
    /\ n \in 1..Len(writes)
    /\ writes[n].st = "failed"
    /\ alerts' = IF writes[n].op = "create" THEN "tmc_add_error" ELSE "tmc_delete_error"
    /\ writes' = RemoveAt(writes, n)
    /\ UNCHANGED <<loaded, postCounter, staffCounter, posts, markup, tmcItems, tmcSelection,
                   tmcList, tmcForm, activeTab, registry, loads, calcs, result>>

-----------------------------------------------------------------------------------------------------------------------------------------------------
(* The page before DOMContentLoaded *)

\* the script's globals (lines 2, 3, 88) and the document as the page delivers it
Blank ==
    /\ loaded = FALSE
    /\ postCounter = 0
    /\ staffCounter = [p \in PostIds |-> 0]
    /\ posts = <<>>
    /\ markup = <<"2", "0">>
    /\ tmcItems = <<>>
    /\ tmcSelection = <<>>
    /\ tmcList = <<>>
    /\ tmcForm = ClearedTmcForm
    /\ activeTab = "calc"
    /\ loads = <<>>
    /\ calcs = <<>>
    /\ writes = <<>>
    /\ result = <<>>
    /\ alerts = ""

\* a server with an empty registry
Init == Blank /\ registry = {}

\* a server whose registry already holds some equipment
InitTmc == Blank /\ registry \in SUBSET ItemIds

-----------------------------------------------------------------------------
(* Specifications *)

HoursTexts == {DefaultHours, <<"8">>}
FewSalaryTexts == {EmptyText, <<"2">>}
CountTexts == {DefaultCount, EmptyText, <<"0">>, <<"-", "1">>}
SalaryTexts == {EmptyText, <<"2">>, <<"0">>, <<"-", "1">>, <<"0", ".", "5">>}
MarkupTexts == {<<"2", "0">>, EmptyText, <<"0">>, <<"5">>, <<"-", "1">>}
QtyTexts == {<<"1">>, EmptyText, <<"3">>, <<"-", "1">>}

Ix == 1..(MaxPosts + MaxStaff)

Respond ==
    \/ CalcOk(1)
    \/ CalcFail(1)
    \/ DismissAlert

Structure ==
    \/ DOMContentLoaded
    \/ AddPost
    \/ \E i \in Ix : RemovePost(i)
    \/ \E i \in Ix : AddStaff(i)
    \/ \E i, j \in Ix : RemoveStaff(i, j)

\* Posts and staff groups come and go, staff groups are filled in, calculate runs
Next ==
    \/ Structure
    \/ \E i, j \in Ix, v \in PositionTexts : EditPosition(i, j, v)
    \/ \E i, j \in Ix, v \in FewSalaryTexts : EditSalary(i, j, v)
    \/ Calculate
    \/ Respond

Spec == Init /\ [][Next]_vars

\* As Next, with the hours of the posts edited too.  CalcOk is left out: it
\* writes result only, which nothing here reads, and it leaves every other variable as
\* CalcFail followed by DismissAlert leaves it
NextIds ==
    \/ Structure
    \/ \E i \in Ix, v \in HoursTexts : EditHours(i, v)
    \/ \E i, j \in Ix, v \in PositionTexts : EditPosition(i, j, v)
    \/ \E i, j \in Ix, v \in FewSalaryTexts : EditSalary(i, j, v)
    \/ Calculate
    \/ CalcFail(1)
    \/ DismissAlert

SpecIds == Init /\ [][NextIds]_vars

\* The one post of the fresh page: every text of its staff fields and of the markup
NextFields ==
    \/ DOMContentLoaded
    \/ \E v \in PositionTexts : EditPosition(1, 1, v)
    \/ \E v \in CountTexts : EditCount(1, 1, v)
    \/ \E v \in SalaryTexts : EditSalary(1, 1, v)
    \/ \E v \in HoursTexts : EditDays(1, v)
    \/ \E v \in MarkupTexts : EditMarkup(v)
    \/ Calculate
    \/ Respond

SpecFields == Init /\ [][NextFields]_vars

\* The equipment check list: loading it, ticking items, typing quantities, calculate
NextSelect ==
    \/ DOMContentLoaded
    \/ ShowTab("calc")
    \/ \E n \in 1..MaxLoads : ServeLoad(n) \/ LoadTMCDone(n) \/ LoadFail(n)
    \/ \E k \in ItemIds : ToggleCheck(k)
    \/ \E k \in ItemIds, v \in QtyTexts : EditQty(k, v)
    \/ EditPosition(1, 1, "Guard")
    \/ EditSalary(1, 1, <<"2">>)
    \/ Calculate
    \/ Respond

SpecSelect == InitTmc /\ [][NextSelect]_vars

TmcFormTexts == {EmptyText, <<"2">>}

EditTmcField ==
    \/ \E v \in {"", "Radio"} : EditTmcForm([tmcForm EXCEPT !.name = v])
    \/ \E v \in TmcFormTexts : EditTmcForm([tmcForm EXCEPT !.price = v])
    \/ \E v \in TmcFormTexts : EditTmcForm([tmcForm EXCEPT !.amortization = v])

\* The registry and its two views: tabs, overlapping fetches, creating and deleting
NextTmc ==
    \/ DOMContentLoaded
    \/ \E t \in {"calc", "tmc"} : ShowTab(t)
    \/ \E n \in 1..MaxLoads : ServeLoad(n) \/ LoadTMCDone(n) \/ LoadTMCListDone(n) \/ LoadFail(n)
    \/ EditTmcField
    \/ AddTMC
    \/ \E k \in ItemIds : DeleteTMC(k)
    \/ ServeWriteOk(1)
    \/ ServeWriteFail(1)
    \/ WriteOk(1)
    \/ WriteFail(1)
    \/ DismissAlert

SpecTmc == InitTmc /\ [][NextTmc]_vars

\* Requests that fail: a calculation over ticked equipment, and a creation the server
\* refuses or that never reaches it
NextErr ==
    \/ DOMContentLoaded
    \/ \E t \in {"calc", "tmc"} : ShowTab(t)
    \/ \E n \in 1..MaxLoads : ServeLoad(n) \/ LoadTMCDone(n) \/ LoadTMCListDone(n)
    \/ \E k \in ItemIds : ToggleCheck(k)
    \/ EditPosition(1, 1, "Guard")
    \/ EditSalary(1, 1, <<"2">>)
    \/ Calculate
    \/ Respond
    \/ EditTmcField
    \/ AddTMC
    \/ ServeWriteFail(1)
    \/ WriteFail(1)

SpecErr == InitTmc /\ [][NextErr]_vars

-----------------------------------------------------------------------------
(* Properties *)

\* a staff group read straight from its own fields
OwnEntry(g) ==
    [position |-> g.position, count |-> ParseInt(g.count), net_salary |-> ParseFloat(g.salary)]

\* the staff group holds a position, a count and a salary that calculate accepts
Filled(g) ==
    /\ g.position # ""
    /\ TruthyNum(ParseInt(g.count))
    /\ TruthyNum(ParseFloat(g.salary))

\* indices of the cards with at least one filled staff group
FilledCards == {i \in 1..Len(posts) : \E j \in 1..Len(posts[i].staff) : Filled(posts[i].staff[j])}

Positive(x) == ~x.nan /\ x.tenths > 0
WholeNumber(x) == ~x.nan /\ x.tenths % 10 = 0

\* C1: the numbers in the titles of the post cards, in display order, are 1, 2, ..., N
C1_TitlesContiguous == \A i \in 1..Len(posts) : posts[i].title = i

\* C2: the post_number values of a submitted request, in list order, are 1, 2, ..., M
C2_RequestNumbersContiguous ==
    \A n \in 1..Len(calcs) :
        \A k \in 1..Len(calcs[n].posts) : calcs[n].posts[k].post_number = k

\* C3: every staff entry of a submitted request has a non-empty position, a count
\* greater than 0 and a net_salary greater than 0
C3_StaffEntriesPositive ==
    \A n \in 1..Len(calcs) :
        \A k \in 1..Len(calcs[n].posts) :
            \A j \in 1..Len(calcs[n].posts[k].staff) :
                LET e == calcs[n].posts[k].staff[j]
                IN  e.position # "" /\ Positive(e.count) /\ Positive(e.net_salary)

\* C4: no post of a submitted request has an empty staff list; the posts of the request
\* are exactly the cards with at least one staff group that passed the filter, and each
\* carries exactly the entries of its card that passed
C4_NoEmptyStaffPost ==
    \A n \in 1..Len(calcs) :
        /\ \A k \in 1..Len(calcs[n].posts) : Len(calcs[n].posts[k].staff) > 0
        /\ {calcs[n].posts[k].post_number : k \in 1..Len(calcs[n].posts)} = FilledCards
        /\ \A k \in 1..Len(calcs[n].posts) :
               LET card == posts[calcs[n].posts[k].post_number]
               IN  calcs[n].posts[k].staff =
                       SelectSeq([j \in 1..Len(card.staff) |-> OwnEntry(card.staff[j])],
                                 ValidEntry)

\* C4 witness: a request in flight that leaves out a card without staff groups and a
\* card whose only staff group is not filled in
C4_Witness ==
    /\ calcs # <<>>
    /\ Len(calcs[1].posts) = 1
    /\ Len(posts) = 3
    /\ \E i \in 1..Len(posts) : posts[i].staff = <<>>
    /\ \E i \in 1..Len(posts) : posts[i].staff # <<>> /\ i \notin FilledCards

\* C5: the markup_percent of a submitted request is the number typed whenever that is
\* a number >= 0, is 20 only when nothing numeric was typed, and is never negative
C5_MarkupAsEntered ==
    \A n \in 1..Len(calcs) :
        LET typed == ParseFloat(markup)
            sent  == calcs[n].markup_percent
        IN  /\ (~typed.nan /\ typed.tenths >= 0) => sent = typed
            /\ typed.nan => sent = DefaultMarkup
            /\ ~sent.nan /\ sent.tenths >= 0

\* no card has a filled staff group
NoValidPost == FilledCards = {}

\* C6: calculate, run when no post has a valid staff entry, issues no request, shows an
\* alert and leaves the displayed result and the form as they were
C6_RejectedWithoutRequest ==
    [][(NoValidPost /\ Calculate) =>
          /\ calcs' = <<>>
          /\ alerts' = "no_posts"
          /\ UNCHANGED <<posts, markup, tmcItems, tmcSelection, result, loads, writes>>]_vars

\* C6 witness: the alert is open over a form without a filled staff group, while an
\* earlier result is still displayed
C6_Witness ==
    /\ alerts = "no_posts"
    /\ NoValidPost
    /\ posts # <<>>
    /\ result # <<>>
    /\ calcs = <<>>

\* C7: when a calculation request fails the posts, the markup, the equipment selection
\* and the displayed result stay as they are and nothing is sent again; calculate itself
\* changes none of them; when an addTMC request fails the creation form stays as it is
C7_FailureLeavesForm ==
    [][/\ (calcs # <<>> /\ alerts' = "calc_error") =>
              /\ UNCHANGED <<posts, markup, tmcItems, tmcSelection, result, loads, writes>>
              /\ calcs' = <<>>
       /\ (calcs = <<>> /\ calcs' # <<>>) =>
              UNCHANGED <<posts, markup, tmcItems, tmcSelection, result>>
       /\ (writes # <<>> /\ alerts' \in {"tmc_add_error", "tmc_delete_error"}) =>
              /\ UNCHANGED <<tmcForm, tmcList, loads, calcs>>
              /\ writes' = <<>>]_vars

\* C7 witness: a failed calculation over a ticked item, with an earlier result on
\* display and a creation form being filled in
C7_Witness ==
    /\ alerts = "calc_error"
    /\ result # <<>>
    /\ \E k \in 1..Len(tmcSelection) : tmcSelection[k].checked
    /\ tmcForm # ClearedTmcForm
    /\ calcs = <<>>

\* C8: the equipment selections of a submitted request are the items ticked at the
\* moment of submission, each once, each with a quantity that is a positive integer
C8_SelectionsFaithful ==
    [][(calcs = <<>> /\ calcs' # <<>>) =>
          LET sent    == calcs'[1].tmc_items
              checked == {tmcSelection[k].id : k \in {m \in 1..Len(tmcSelection) :
                                                         tmcSelection[m].checked}}
          IN  /\ \A k \in 1..Len(sent) :
                     /\ sent[k].item_id \in checked
                     /\ Positive(sent[k].quantity)
                     /\ WholeNumber(sent[k].quantity)
              /\ \A id \in checked :
                     Cardinality({k \in 1..Len(sent) : sent[k].item_id = id}) = 1]_vars

\* the fetches issued by loadTMC
SelectLoads == {n \in 1..Len(loads) : loads[n].kind = "select"}

\* C9: the rendered check boxes are always those of tmcItems, and once every loadTMC
\* fetch has completed tmcItems holds the response of the fetch issued last
C9_LatestFetchWins ==
    /\ [k \in 1..Len(tmcSelection) |-> tmcSelection[k].id] = tmcItems
    /\ (SelectLoads # {} /\ \A n \in SelectLoads : loads[n].st = "done") =>
           tmcItems = loads[CHOOSE n \in SelectLoads : \A m \in SelectLoads : m <= n].resp

\* the cards without their titles
Untitled(ps) ==
    [i \in 1..Len(ps) |->
        [id |-> ps[i].id, hours |-> ps[i].hours, days |-> ps[i].days, staff |-> ps[i].staff]]

RECURSIVE StaffCount(_, _)
StaffCount(ps, i) == IF i > Len(ps) THEN 0 ELSE Len(ps[i].staff) + StaffCount(ps, i + 1)

\* the posts array calculate would build if it read every card from its own fields
OwnPosts(ps) ==
    SelectSeq([i \in 1..Len(ps) |->
                  [post_number |-> i,
                   hours_per_day |-> ParseInt(ps[i].hours),
                   days_per_week |-> ParseInt(ps[i].days),
                   staff |-> SelectSeq([j \in 1..Len(ps[i].staff) |-> OwnEntry(ps[i].staff[j])],
                                       ValidEntry)]],
              HasStaff)

\* ids of cards and of staff groups are pairwise distinct, every lookup by id finds the
\* element itself, and calculate builds its posts from each card's own fields in order
C10_IdsInv ==
    /\ \A i, k \in 1..Len(posts) : posts[i].id = posts[k].id => i = k
    /\ \A i, k \in 1..Len(posts) :
           \A j \in 1..Len(posts[i].staff), l \in 1..Len(posts[k].staff) :
               posts[i].staff[j].id = posts[k].staff[l].id => (i = k /\ j = l)
    /\ \A i \in 1..Len(posts) : posts[i].id <= postCounter
    /\ \A i \in 1..Len(posts) :
           \A j \in 1..Len(posts[i].staff) :
               /\ posts[i].staff[j].id[1] = posts[i].id
               /\ posts[i].staff[j].id[2] <= staffCounter[posts[i].id]
    /\ CollectPosts(posts) = OwnPosts(posts)
    /\ \A n \in 1..Len(calcs) :
           /\ calcs[n].posts = OwnPosts(posts)
           /\ \A k \in 1..(Len(calcs[n].posts) - 1) :
                  calcs[n].posts[k].post_number < calcs[n].posts[k + 1].post_number

\* the counters only grow; a step that removes a card removes one card and leaves the
\* others as they are but for their titles; a step that removes a staff group removes
\* one staff group and leaves everything else as it is
C10_FrameAct ==
    /\ postCounter' >= postCounter
    /\ \A p \in PostIds : staffCounter'[p] >= staffCounter[p]
    /\ Len(posts') < Len(posts) =>
           \E k \in 1..Len(posts) : Untitled(posts') = RemoveAt(Untitled(posts), k)
    /\ (Len(posts') = Len(posts) /\ StaffCount(posts', 1) < StaffCount(posts, 1)) =>
           \E i \in 1..Len(posts) : \E j \in 1..Len(posts[i].staff) :
               posts' = [posts EXCEPT ![i].staff = RemoveAt(@, j)]

\* C10: post ids and staff-group ids are never reused, removals take out the one
\* targeted element only, and calculate reads every post from its own card
C10_IdsNeverReused == []C10_IdsInv /\ [][C10_FrameAct]_vars

\* C10 witness: the first card was removed and a third one added, the two cards differ
\* in their hours, and a request built from the second card alone is in flight
C10_Witness ==
    /\ Len(posts) = 2
    /\ posts[1].id = 2 /\ posts[2].id = 3
    /\ posts[1].hours # posts[2].hours
    /\ calcs # <<>>
    /\ Len(calcs[1].posts) = 1
    /\ calcs[1].posts[1].post_number = 2
    /\ calcs[1].posts[1].hours_per_day = ParseInt(<<"8">>)

====
